---- MODULE Spec2Model ----
(***************************************************************************)
(* A model of pkg/ua/ua.go: the SIP user agent's session store, the        *)
(* inbound dispatcher (handleInvite, handleACK, handleBye, handleCancel    *)
(* and the Cancels watcher of every INVITE server transaction) and the     *)
(* request coordinator RequestWithContext (its event-loop goroutine, its   *)
(* waitForResponse loop and the three unbuffered channels between them).   *)
(*                                                                         *)
(* Every handler runs in a goroutine of its own, so every access to the    *)
(* shared store (Load, Store, Delete) and every handler callback is a step *)
(* of its own and the steps of different goroutines interleave.            *)
(*                                                                         *)
(* Not modelled: the stored request, response and transaction of a         *)
(* session (StoreRequest, StoreResponse, StoreTransaction, ProvideOffer),  *)
(* the header builders, and the Acks watcher, which only logs.             *)
(***************************************************************************)
EXTENDS Integers, Sequences, FiniteSets, TLC

\* ------------------------------------------------------------------ bounds
\* events of the environment in a run of the whole user agent: inbound
\* requests, the outgoing request and what its client transactions deliver
MaxEvents == 3
\* events the client transactions deliver in a run of the coordinator alone
MaxResp == 3
\* retransmissions of its 2xx a client transaction delivers
MaxRetrans == 1

\* ----------------------------------------------------------------- domains
CallIDs == {"X"}

InboundMethods == {"INVITE", "ACK", "BYE", "CANCEL"}

OutboundMethods == {"INVITE", "REGISTER"}

Terminal == {"Terminated", "Canceled", "Failure"}

\* the responses a client transaction may deliver: 183 carries SDP, 180 none
Responses ==
    { [code |-> 100, body |-> FALSE], [code |-> 180, body |-> FALSE],
      [code |-> 183, body |-> TRUE],  [code |-> 200, body |-> TRUE],
      [code |-> 401, body |-> FALSE], [code |-> 407, body |-> FALSE],
      [code |-> 486, body |-> FALSE] }

VARIABLES
    iss,        \* the session store: a set of <<Call-ID, session>> entries
    sessions,   \* the sessions created so far: state and the callbacks received
    thr,        \* the goroutines of the inbound handlers and their watchers
    calls,      \* the invocations of RequestWithContext (outer and nested)
    ctxDone,    \* the caller cancelled the context
    crashed,    \* a goroutine panicked: the process is gone
    reg         \* the call of SendRegister: its position and the number of
                \* RegisterStateHandler invocations it made

vars == <<iss, sessions, thr, calls, ctxDone, crashed, reg>>

\* ------------------------------------------------------------ session store
\* sync.Map.Load: the session stored under callID, 0 when there is none
Load(store, callID) ==
    IF \E p \in store : p[1] = callID
    THEN (CHOOSE p \in store : p[1] = callID)[2]
    ELSE 0

StoreMutant(store, callID, is) == store \cup {<<callID, is>>}

\* sync.Map.Store: replaces whatever is stored under callID
Store(store, callID, is) ==
    {p \in store : p[1] # callID} \cup {<<callID, is>>}

\* sync.Map.Delete: removes whatever is stored under callID
Delete(store, callID) == {p \in store : p[1] # callID}

\* ----------------------------------------------------------------- session
\* Session.SetState: a session in a terminal state keeps it
SetState(cur, state) == IF cur \in Terminal THEN cur ELSE state

\* session.NewInviteSession
NewInviteSession(callID) == [c |-> callID, state |-> "Null", cb |-> <<>>]

\* SetState without a callback (is.SetState alone)
SetStateOnly(ss, is, state) ==
    [ss EXCEPT ![is].state = SetState(@, state)]

\* handleInviteState: set the state, then invoke InviteStateHandler with it.
\* by/id name the goroutine that makes the call.
handleInviteState(ss, is, state, by, id) ==
    [ss EXCEPT ![is].state = SetState(@, state),
               ![is].cb = Append(@, [st |-> state, by |-> by, id |-> id])]

\* the events the client transactions of the request have delivered so far
RECURSIVE Delivered(_, _)
Delivered(cs, n) ==
    IF n = 0 THEN 0 ELSE Len(cs[n].delivered) + Delivered(cs, n - 1)

\* the CANCELs the Cancels watchers have received so far
RECURSIVE Cancels(_, _)
Cancels(th, n) ==
    IF n = 0 THEN 0
    ELSE (IF th[n].wpc \in {"none", "wait"} THEN 0 ELSE 1) + Cancels(th, n - 1)

\* the events of the environment so far: the inbound requests and CANCELs,
\* the outgoing request of the application and what its client transactions
\* delivered
Events(th, cs) ==
    Len(th) + Cancels(th, Len(th))
    + (IF cs = <<>> THEN 0 ELSE 1) + Delivered(cs, Len(cs))

\* ------------------------------------------------------- inbound dispatcher
\* The stack starts a goroutine per inbound request (stack.OnRequest).  A
\* goroutine record holds the handler's position pc, the session v it
\* loaded and the number of tx.Respond calls it made, and the same for the
\* Cancels watcher that handleInvite starts (wpc, wv, wresp); new says that
\* the handler created the session v.  A step that
\* touches nothing shared (building the response, tx.Respond, receiving from
\* tx.Cancels) is taken together with the handler's next access to the store
\* or to a session.

AfterLoadMutant(m, found) ==
    CASE m = "INVITE" -> IF found THEN "cb" ELSE "store"
      [] m = "ACK"    -> IF found THEN "cb" ELSE "done"
      [] m = "BYE"    -> IF found THEN "cb" ELSE "done"
      [] m = "CANCEL" -> IF found THEN "delete" ELSE "done"

AfterLoadNoDelete(m, found) ==
    CASE m = "INVITE" -> IF found THEN "cb" ELSE "store"
      [] m = "ACK"    -> IF found THEN "cb" ELSE "done"
      [] m = "BYE"    -> IF found THEN "delete" ELSE "done"
      [] m = "CANCEL" -> IF found THEN "cb" ELSE "done"

\* where a handler goes after ua.iss.Load
AfterLoad(m, found) ==
    CASE m = "INVITE" -> IF found THEN "cb" ELSE "store"
      [] m = "ACK"    -> IF found THEN "cb" ELSE "done"
      [] m = "BYE"    -> IF found THEN "delete" ELSE "done"
      [] m = "CANCEL" -> IF found THEN "delete" ELSE "done"

\* the state a handler passes to handleInviteState for a session it found
FoundState(m) ==
    CASE m = "INVITE" -> "ReInviteReceived"
      [] m = "ACK"    -> "Confirmed"
      [] m = "BYE"    -> "Terminated"
      [] m = "CANCEL" -> "Canceled"

RespondsFirstMutant(m) == FALSE

\* handleCancel calls tx.Respond before it looks the session up
RespondsFirst(m) == m = "CANCEL"

\* handleBye calls tx.Respond last, whether it found a session or not
RespondsLast(m, found) == m = "BYE"

\* handleInvite ends by starting the Cancels watcher of its transaction
WatcherStart(m, pc) == IF m = "INVITE" /\ pc = "done" THEN "wait" ELSE "none"

\* the tx.Respond calls a handler has made when it reaches pc
Responded(m, pc, found) ==
    (IF RespondsFirst(m) THEN 1 ELSE 0)
    + (IF RespondsLast(m, found) /\ pc = "done" THEN 1 ELSE 0)

\* the goroutine of a handler that has just done its ua.iss.Load
NewHandler(m, callID, is) ==
    LET pc == AfterLoad(m, is # 0)
    IN [m |-> m, c |-> callID, pc |-> pc, v |-> is,
        new |-> FALSE, resp |-> Responded(m, pc, is # 0),
        wpc |-> WatcherStart(m, pc), wv |-> 0, wresp |-> 0]

\* the stack hands an inbound request to its handler, which runs up to its
\* ua.iss.Load(*callID); max bounds the events of the environment
Dispatch(m, callID, max) ==
    /\ ~crashed
    /\ Events(thr, calls) < max
    /\ thr' = Append(thr, NewHandler(m, callID, Load(iss, callID)))
    /\ UNCHANGED <<iss, sessions, calls, ctxDone, crashed, reg>>

\* handleInvite, no session found: NewInviteSession and ua.iss.Store
HStore(t) ==
    /\ ~crashed
    /\ thr[t].pc = "store"
    /\ LET is == Len(sessions) + 1
       IN /\ sessions' = Append(sessions, NewInviteSession(thr[t].c))
          /\ iss' = Store(iss, thr[t].c, is)
          /\ thr' = [thr EXCEPT ![t].v = is, ![t].new = TRUE,
                                ![t].pc = "cb_new"]
    /\ UNCHANGED <<calls, ctxDone, crashed, reg>>

\* handleInvite, new session: SetState and handleInviteState(InviteReceived)
HInviteReceived(t) ==
    /\ ~crashed
    /\ thr[t].pc = "cb_new"
    /\ sessions' = handleInviteState(sessions, thr[t].v, "InviteReceived",
                                     thr[t].m, t)
    /\ thr' = [thr EXCEPT ![t].pc = "setwait"]
    /\ UNCHANGED <<iss, calls, ctxDone, crashed, reg>>

\* handleInvite, new session: is.SetState(WaitingForAnswer), no callback;
\* the handler then starts the watcher and returns
HSetWaiting(t) ==
    /\ ~crashed
    /\ thr[t].pc = "setwait"
    /\ sessions' = SetStateOnly(sessions, thr[t].v, "WaitingForAnswer")
    /\ thr' = [thr EXCEPT ![t].pc = "done",
                          ![t].wpc = WatcherStart(thr[t].m, "done")]
    /\ UNCHANGED <<iss, calls, ctxDone, crashed, reg>>

\* ua.iss.Delete(*callID) of handleBye and handleCancel
HDelete(t) ==
    /\ ~crashed
    /\ thr[t].pc = "delete"
    /\ iss' = Delete(iss, thr[t].c)
    /\ thr' = [thr EXCEPT ![t].pc = "cb"]
    /\ UNCHANGED <<sessions, calls, ctxDone, crashed, reg>>

\* handleInviteState for the session the handler found; handleBye then
\* responds, handleInvite starts its watcher
HCallback(t) ==
    /\ ~crashed
    /\ thr[t].pc = "cb"
    /\ sessions' = handleInviteState(sessions, thr[t].v, FoundState(thr[t].m),
                                     thr[t].m, t)
    /\ thr' = [thr EXCEPT ![t].pc = "done",
                          ![t].resp = Responded(thr[t].m, "done", TRUE),
                          ![t].wpc = WatcherStart(thr[t].m, "done")]
    /\ UNCHANGED <<iss, calls, ctxDone, crashed, reg>>

\* the watcher receives a CANCEL from tx.Cancels(), builds its 200 OK and
\* does its ua.iss.Load; without a session it responds at once.  (A watcher
\* that receives nil does nothing: it is one that stays waiting.)
WCancel(t, max) ==
    /\ ~crashed
    /\ thr[t].wpc = "wait"
    /\ Events(thr, calls) < max
    /\ LET is == Load(iss, thr[t].c)
       IN thr' = [thr EXCEPT ![t].wv = is,
                             ![t].wpc = IF is # 0 THEN "delete" ELSE "done",
                             ![t].wresp = IF is # 0 THEN @ ELSE @ + 1]
    /\ UNCHANGED <<iss, sessions, calls, ctxDone, crashed, reg>>

\* the watcher's ua.iss.Delete
WDelete(t) ==
    /\ ~crashed
    /\ thr[t].wpc = "delete"
    /\ iss' = Delete(iss, thr[t].c)
    /\ thr' = [thr EXCEPT ![t].wpc = "cb"]
    /\ UNCHANGED <<sessions, calls, ctxDone, crashed, reg>>

\* the watcher's SetState and handleInviteState(Canceled), then its
\* tx.Respond(200 OK) to the CANCEL
WCallback(t) ==
    /\ ~crashed
    /\ thr[t].wpc = "cb"
    /\ sessions' = handleInviteState(sessions, thr[t].wv, "Canceled",
                                     "watcher", t)
    /\ thr' = [thr EXCEPT ![t].wpc = "done", ![t].wresp = @ + 1]
    /\ UNCHANGED <<iss, calls, ctxDone, crashed, reg>>

\* ------------------------------------------------------ request coordinator
\* what travels on the channels provisionals, responses and errs, and what
\* waitForResponse returns: k is "prov" or "resp" for a response, "reqerr"
\* for a *sip.RequestError, "auth" for the authorizer's error, "transport"
\* for the error of SipStack.Request, "none" for nil
Msg(k, code, body) == [k |-> k, code |-> code, body |-> body]

NoMsg == Msg("none", 0, FALSE)

NewRequestErrorMutant(code) == Msg("reqerr", 487, FALSE)

\* sip.NewRequestError(code, ...)
NewRequestError(code) == Msg("reqerr", code, FALSE)

\* lastResponse == nil
NoResponse == [code |-> 0, body |-> FALSE]

\* an event of a client transaction, as delivered: ev is "resp", "timeout",
\* "other" (another error), "errclosed" or "respclosed" (a closed stream)
Event(ev, r) == [ev |-> ev, code |-> r.code, body |-> r.body]

\* make(chan sip.Response), make(chan error): unbuffered
ChanCap == 0

\* sip.Response.IsProvisional: every 1xx, 100 Trying included
IsProvisional(r) == r.code < 200

\* sip.Response.IsSuccess
IsSuccess(r) == r.code >= 200 /\ r.code < 300

\* response.StatusCode() == 401 || response.StatusCode() == 407
IsChallenge(r) == r.code = 401 \/ r.code = 407

\* a fresh invocation of RequestWithContext; parent is the invocation whose
\* event loop made this nested call, 0 for a call of the application
NewCall(m, callID, auth, parent) ==
    [m |-> m, c |-> callID, auth |-> auth, parent |-> parent,
     pc |-> "request", v |-> 0, cur |-> NoMsg, ret |-> NoMsg,
     el |-> "none", out |-> NoMsg, outch |-> "none", aft |-> "none",
     ch |-> [prov |-> <<>>, resp |-> <<>>, errs |-> <<>>],
     last |-> NoResponse, prev |-> <<>>, prevSt |-> {},
     delivered |-> <<>>, retrans |-> 0, acks |-> 0, rem |-> 0, cancels |-> 0,
     ctxAt |-> -1, ackg |-> FALSE]

\* the messages waiting on the three channels of a call
Pending(fr) == Len(fr.ch.prov) + Len(fr.ch.resp) + Len(fr.ch.errs)

CanSendMutant(fr, chn) ==
    \/ Len(fr.ch[chn]) < 1
    \/ (fr.pc = "wait" /\ Pending(fr) = 0)

\* a send on channel chn completes: there is room in its buffer, or
\* waitForResponse sits in its select with nothing handed to it yet
CanSend(fr, chn) ==
    \/ Len(fr.ch[chn]) < ChanCap
    \/ (fr.pc = "wait" /\ Pending(fr) = 0)

\* the event loop is about to send msg on chn, and goes to aft afterwards
Sending(fr, chn, msg, aft) ==
    [fr EXCEPT !.el = "send", !.out = msg, !.outch = chn, !.aft = aft]

\* the transaction layer delivers no response after a final one, except the
\* retransmissions of the 2xx of an INVITE
FinalDelivered(fr) ==
    \E i \in 1..Len(fr.delivered) :
        fr.delivered[i].ev = "resp" /\ fr.delivered[i].code >= 200

CancelIfMutant(last) == TRUE

\* lastResponse != nil && lastResponse.IsProvisional()
CancelIf(last) == last # NoResponse /\ IsProvisional(last)

\* request.IsInvite() guards AckInviteRequest and RememberInviteRequest
AckIf(m) == m = "INVITE"

\* case <-ctx.Done(): CancelRequest when the last response is provisional,
\* then errs <- 487, then the drainer; ctxAt records how many events the
\* transaction had delivered when the event loop took this branch
OnCtxDone(fr) ==
    Sending([fr EXCEPT !.cancels = @ + (IF CancelIf(fr.last) THEN 1 ELSE 0),
                       !.ctxAt = Len(fr.delivered)],
            "errs", NewRequestError(487), "drain")

\* case err, ok := <-tx.Errors()
OnError(fr, ev) ==
    LET fr1 == [fr EXCEPT !.delivered = Append(@, Event(ev, NoResponse))]
    IN CASE ev = "errclosed" -> Sending(fr1, "errs", NewRequestError(487), "done")
         [] ev = "timeout"   -> Sending(fr1, "errs", NewRequestError(408), "done")
         [] ev = "other"     -> [fr1 EXCEPT !.el = "done"]

\* case response, ok := <-tx.Responses() with ok false
OnResponsesClosed(fr) ==
    Sending([fr EXCEPT !.delivered = Append(@, Event("respclosed", NoResponse))],
            "errs", NewRequestError(487), "done")

\* case response, ok := <-tx.Responses() with a response
OnResponse(fr, r) ==
    LET fr1 == [fr EXCEPT !.last = r, !.delivered = Append(@, Event("resp", r))]
    IN IF IsProvisional(r)
       THEN Sending([fr1 EXCEPT !.prev = IF r.code \notin fr.prevSt
                                         THEN Append(@, r.code) ELSE @],
                    "prov", Msg("prov", r.code, r.body), "select")
       ELSE IF IsSuccess(r)
       THEN Sending([fr1 EXCEPT !.acks = @ + (IF AckIf(fr.m) THEN 1 ELSE 0),
                                !.rem = @ + (IF AckIf(fr.m) THEN 1 ELSE 0),
                                !.ackg = AckIf(fr.m)],
                    "resp", Msg("resp", r.code, r.body), "done")
       ELSE IF IsChallenge(r) /\ fr.auth
       THEN [fr1 EXCEPT !.el = "authz"]
       ELSE Sending(fr1, "errs", NewRequestError(r.code), "done")

\* the application calls RequestWithContext (Invite, SendRegister, a
\* session's follow-up request); one such call is followed at a time
StartRequest(m, callID, auth, max) ==
    /\ ~crashed
    /\ calls = <<>>
    /\ Events(thr, calls) < max
    /\ calls' = <<NewCall(m, callID, auth, 0)>>
    /\ UNCHANGED <<iss, sessions, thr, ctxDone, crashed, reg>>

\* the caller cancels the context of its call
CtxCancel ==
    /\ ~crashed
    /\ calls # <<>>
    /\ ~ctxDone
    /\ ctxDone' = TRUE
    /\ UNCHANGED <<iss, sessions, thr, calls, crashed, reg>>

\* s.Request(request) returns a client transaction
URequestOK(f) ==
    /\ ~crashed
    /\ calls[f].pc = "request"
    /\ calls' = [calls EXCEPT
                   ![f].pc = IF calls[f].m = "INVITE" THEN "seed_load" ELSE "wait",
                   ![f].el = IF calls[f].m = "INVITE" THEN "none" ELSE "select"]
    /\ UNCHANGED <<iss, sessions, thr, ctxDone, crashed, reg>>

\* s.Request(request) returns an error: return nil, err
URequestFail(f) ==
    /\ ~crashed
    /\ calls[f].pc = "request"
    /\ calls' = [calls EXCEPT ![f].pc = "ret",
                              ![f].ret = Msg("transport", 0, FALSE)]
    /\ UNCHANGED <<iss, sessions, thr, ctxDone, crashed, reg>>

\* INVITE: ua.iss.Load(*callID); a session found is left alone and the
\* event loop starts
USeedLoad(f) ==
    /\ ~crashed
    /\ calls[f].pc = "seed_load"
    /\ LET found == Load(iss, calls[f].c) # 0
       IN calls' = [calls EXCEPT
                      ![f].pc = IF found THEN "wait" ELSE "seed_store",
                      ![f].el = IF found THEN "select" ELSE "none"]
    /\ UNCHANGED <<iss, sessions, thr, ctxDone, crashed, reg>>

\* INVITE, no session found: NewInviteSession and ua.iss.Store
USeedStore(f) ==
    /\ ~crashed
    /\ calls[f].pc = "seed_store"
    /\ LET is == Len(sessions) + 1
       IN /\ sessions' = Append(sessions, NewInviteSession(calls[f].c))
          /\ iss' = Store(iss, calls[f].c, is)
          /\ calls' = [calls EXCEPT ![f].v = is, ![f].pc = "seed_cb"]
    /\ UNCHANGED <<thr, ctxDone, crashed, reg>>

\* INVITE, new session: SetState and handleInviteState(InviteSent); the
\* event loop starts
USeedCallback(f) ==
    /\ ~crashed
    /\ calls[f].pc = "seed_cb"
    /\ sessions' = handleInviteState(sessions, calls[f].v, "InviteSent", "uac", f)
    /\ calls' = [calls EXCEPT ![f].pc = "wait", ![f].el = "select"]
    /\ UNCHANGED <<iss, thr, ctxDone, crashed, reg>>

\* ---- the event-loop goroutine of a call (ua.go 434-541)
\* the stack still has an event to deliver: max bounds the events of the
\* environment (inbound requests and transaction events)
MayDeliver(max) == Events(thr, calls) < max

\* select takes case <-ctx.Done()
ELCtxDone(f) ==
    /\ ~crashed
    /\ calls[f].el = "select"
    /\ ctxDone
    /\ calls' = [calls EXCEPT ![f] = OnCtxDone(@)]
    /\ UNCHANGED <<iss, sessions, thr, ctxDone, crashed, reg>>

\* select takes case <-tx.Errors(): an error, or the stream closed
ELError(f, ev, max) ==
    /\ ~crashed
    /\ calls[f].el = "select"
    /\ MayDeliver(max)
    /\ calls' = [calls EXCEPT ![f] = OnError(@, ev)]
    /\ UNCHANGED <<iss, sessions, thr, ctxDone, crashed, reg>>

\* select takes case <-tx.Responses() and the stream is closed
ELResponsesClosed(f, max) ==
    /\ ~crashed
    /\ calls[f].el = "select"
    /\ MayDeliver(max)
    /\ calls' = [calls EXCEPT ![f] = OnResponsesClosed(@)]
    /\ UNCHANGED <<iss, sessions, thr, ctxDone, crashed, reg>>

\* select takes case <-tx.Responses() with response r
ELResponse(f, r, max) ==
    /\ ~crashed
    /\ calls[f].el = "select"
    /\ MayDeliver(max)
    /\ calls' = [calls EXCEPT ![f] = OnResponse(@, r)]
    /\ UNCHANGED <<iss, sessions, thr, ctxDone, crashed, reg>>

\* a send of the event loop on provisionals, responses or errs completes
ELSend(f) ==
    /\ ~crashed
    /\ calls[f].el = "send"
    /\ CanSend(calls[f], calls[f].outch)
    /\ calls' = [calls EXCEPT
                   ![f].ch[calls[f].outch] = Append(@, calls[f].out),
                   ![f].el = calls[f].aft,
                   ![f].out = NoMsg, ![f].outch = "none", ![f].aft = "none"]
    /\ UNCHANGED <<iss, sessions, thr, ctxDone, crashed, reg>>

RetryAuthorizerMutant(auth) == auth

\* the authorizer of the retry: ua.RequestWithContext(ctx, request, nil, true)
RetryAuthorizer(auth) == FALSE

\* authorizer.AuthorizeRequest succeeds: the event loop calls
\* ua.RequestWithContext(ctx, request, nil, true)
ELAuthorized(f) ==
    /\ ~crashed
    /\ calls[f].el = "authz"
    /\ calls' = Append([calls EXCEPT ![f].el = "nested"],
                       NewCall(calls[f].m, calls[f].c,
                               RetryAuthorizer(calls[f].auth), f))
    /\ UNCHANGED <<iss, sessions, thr, ctxDone, crashed, reg>>

\* authorizer.AuthorizeRequest fails: errs <- err
ELAuthFailed(f) ==
    /\ ~crashed
    /\ calls[f].el = "authz"
    /\ calls' = [calls EXCEPT
                   ![f] = Sending(@, "errs", Msg("auth", 0, FALSE), "done")]
    /\ UNCHANGED <<iss, sessions, thr, ctxDone, crashed, reg>>

\* the nested call g of f's event loop returned: forward its result
ELNestedReturn(f, g) ==
    /\ ~crashed
    /\ calls[f].el = "nested"
    /\ calls[g].parent = f
    /\ calls[g].pc = "ret"
    /\ calls' = [calls EXCEPT
                   ![f] = Sending(@, IF calls[g].ret.k = "resp"
                                     THEN "resp" ELSE "errs",
                                  calls[g].ret, "done")]
    /\ UNCHANGED <<iss, sessions, thr, ctxDone, crashed, reg>>

\* after a cancellation the drainer discards what the transaction delivers
Drain(f, r, max) ==
    /\ ~crashed
    /\ calls[f].el = "drain"
    /\ MayDeliver(max)
    /\ ~FinalDelivered(calls[f])
    /\ calls' = [calls EXCEPT ![f].delivered = Append(@, Event("resp", r))]
    /\ UNCHANGED <<iss, sessions, thr, ctxDone, crashed, reg>>

\* after the 2xx of an INVITE: for response := range tx.Responses()
\* { s.AckInviteRequest(request, response) }, for one retransmission of the
\* 2xx (retrans counts them; the transaction delivers nothing else there)
AckRetransmission(f, r) ==
    /\ ~crashed
    /\ calls[f].ackg
    /\ calls[f].retrans < MaxRetrans
    /\ IsSuccess(r)
    /\ calls' = [calls EXCEPT ![f].retrans = @ + 1, ![f].acks = @ + 1]
    /\ UNCHANGED <<iss, sessions, thr, ctxDone, crashed, reg>>

\* ---- waitForResponse (ua.go 543-595)
\* err.(*sip.RequestError) panics for any other error
IsRequestError(msg) == msg.k = "reqerr"

AfterRecv(chn, msg) ==
    CASE chn = "prov" -> "prov_load"
      [] chn = "resp" -> "resp_load"
      [] chn = "errs" -> IF IsRequestError(msg) THEN "err_load" ELSE "panic"

\* the select of waitForResponse receives from provisionals, errs or responses
WaitRecv(f, chn) ==
    /\ ~crashed
    /\ calls[f].pc = "wait"
    /\ calls[f].ch[chn] # <<>>
    /\ LET msg == Head(calls[f].ch[chn])
       IN /\ calls' = [calls EXCEPT ![f].ch[chn] = Tail(@), ![f].cur = msg,
                                    ![f].pc = AfterRecv(chn, msg)]
          /\ crashed' = (AfterRecv(chn, msg) = "panic")
    /\ UNCHANGED <<iss, sessions, thr, ctxDone, reg>>

\* provisional: ua.iss.Load
WaitProvLoad(f) ==
    /\ ~crashed
    /\ calls[f].pc = "prov_load"
    /\ LET is == Load(iss, calls[f].c)
       IN calls' = [calls EXCEPT ![f].v = is,
                                 ![f].pc = IF is # 0 THEN "prov_cb" ELSE "wait"]
    /\ UNCHANGED <<iss, sessions, thr, ctxDone, crashed, reg>>

\* provisional: handleInviteState(Provisional)
WaitProvisional(f) ==
    /\ ~crashed
    /\ calls[f].pc = "prov_cb"
    /\ sessions' = handleInviteState(sessions, calls[f].v, "Provisional", "uac", f)
    /\ calls' = [calls EXCEPT ![f].pc = IF calls[f].cur.body
                                        THEN "prov_em" ELSE "wait"]
    /\ UNCHANGED <<iss, thr, ctxDone, crashed, reg>>

\* provisional with a body: SetState and handleInviteState(EarlyMedia)
WaitEarlyMedia(f) ==
    /\ ~crashed
    /\ calls[f].pc = "prov_em"
    /\ sessions' = handleInviteState(sessions, calls[f].v, "EarlyMedia", "uac", f)
    /\ calls' = [calls EXCEPT ![f].pc = "wait"]
    /\ UNCHANGED <<iss, thr, ctxDone, crashed, reg>>

\* error: ua.iss.Load; without a session return nil, err
WaitErrLoad(f) ==
    /\ ~crashed
    /\ calls[f].pc = "err_load"
    /\ LET is == Load(iss, calls[f].c)
       IN calls' = [calls EXCEPT
                      ![f].v = is,
                      ![f].pc = IF is # 0 THEN "err_delete" ELSE "ret",
                      ![f].ret = IF is # 0 THEN @ ELSE calls[f].cur]
    /\ UNCHANGED <<iss, sessions, thr, ctxDone, crashed, reg>>

\* error: ua.iss.Delete
WaitErrDelete(f) ==
    /\ ~crashed
    /\ calls[f].pc = "err_delete"
    /\ iss' = Delete(iss, calls[f].c)
    /\ calls' = [calls EXCEPT ![f].pc = "err_cb"]
    /\ UNCHANGED <<sessions, thr, ctxDone, crashed, reg>>

\* error: SetState and handleInviteState(Failure), return nil, err
WaitFailure(f) ==
    /\ ~crashed
    /\ calls[f].pc = "err_cb"
    /\ sessions' = handleInviteState(sessions, calls[f].v, "Failure", "uac", f)
    /\ calls' = [calls EXCEPT ![f].pc = "ret", ![f].ret = calls[f].cur]
    /\ UNCHANGED <<iss, thr, ctxDone, crashed, reg>>

\* final response: ua.iss.Load; no session or no INVITE: return response, nil
WaitRespLoad(f) ==
    /\ ~crashed
    /\ calls[f].pc = "resp_load"
    /\ LET is == Load(iss, calls[f].c)
           cb == is # 0 /\ calls[f].m = "INVITE"
       IN calls' = [calls EXCEPT
                      ![f].v = is,
                      ![f].pc = IF cb THEN "resp_cb" ELSE "ret",
                      ![f].ret = IF cb THEN @ ELSE calls[f].cur]
    /\ UNCHANGED <<iss, sessions, thr, ctxDone, crashed, reg>>

\* final response: SetState and handleInviteState(Confirmed), return it
WaitConfirmed(f) ==
    /\ ~crashed
    /\ calls[f].pc = "resp_cb"
    /\ sessions' = handleInviteState(sessions, calls[f].v, "Confirmed", "uac", f)
    /\ calls' = [calls EXCEPT ![f].pc = "ret", ![f].ret = calls[f].cur]
    /\ UNCHANGED <<iss, thr, ctxDone, crashed, reg>>

\* what the caller of RequestWithContext receives: with waitForResult the
\* result of waitForResponse, otherwise nil, nil at once
CallerResult(fr, waitForResult) == IF waitForResult THEN fr.ret ELSE NoMsg

\* ---------------------------------------------------------- registrar client
\* the application calls SendRegister; one such call is followed
SendRegister ==
    /\ ~crashed
    /\ reg.pc = "idle"
    /\ calls = <<>>
    /\ reg' = [reg EXCEPT !.pc = "build"]
    /\ UNCHANGED <<iss, sessions, thr, calls, ctxDone, crashed>>

\* ua.BuildRequest returns an error: SendRegister logs it and returns
RBuildFail ==
    /\ ~crashed
    /\ reg.pc = "build"
    /\ reg' = [reg EXCEPT !.pc = "done"]
    /\ UNCHANGED <<iss, sessions, thr, calls, ctxDone, crashed>>

\* the request is built: ua.RequestWithContext(context.TODO(), *request,
\* authorizer, true), the authorizer there when the profile has credentials
RBuildOK(callID, auth) ==
    /\ ~crashed
    /\ reg.pc = "build"
    /\ calls' = <<NewCall("REGISTER", callID, auth, 0)>>
    /\ reg' = [reg EXCEPT !.pc = "request"]
    /\ UNCHANGED <<iss, sessions, thr, ctxDone, crashed>>

\* the RegisterStateHandler invocations of handleRegisterState(resp, err):
\* one for an error, one for a response
RegisterCallbacks(res) ==
    (IF res.k \notin {"none", "resp"} THEN 1 ELSE 0)
    + (IF res.k = "resp" THEN 1 ELSE 0)

\* handleRegisterState: err.(*sip.RequestError) panics for an error of
\* another type
RegisterPanics(res) == res.k \notin {"none", "resp"} /\ ~IsRequestError(res)

\* RequestWithContext has returned: ua.handleRegisterState(profile, resp, err)
RHandleRegisterState ==
    /\ ~crashed
    /\ reg.pc = "request"
    /\ calls[1].pc = "ret"
    /\ LET res == CallerResult(calls[1], TRUE)
       IN IF RegisterPanics(res)
          THEN crashed' = TRUE /\ UNCHANGED reg
          ELSE /\ reg' = [pc |-> "done", n |-> reg.n + RegisterCallbacks(res)]
               /\ UNCHANGED crashed
    /\ UNCHANGED <<iss, sessions, thr, calls, ctxDone>>

\* ------------------------------------------------------------ specification
Init ==
    /\ iss = {}
    /\ sessions = <<>>
    /\ thr = <<>>
    /\ calls = <<>>
    /\ ctxDone = FALSE
    /\ crashed = FALSE
    /\ reg = [pc |-> "idle", n |-> 0]

ErrorEvents == {"timeout", "other", "errclosed"}

Channels == {"prov", "resp", "errs"}

Threads == 1..Len(thr)

Calls == 1..Len(calls)

Inbound(max) ==
    \/ \E m \in InboundMethods, c \in CallIDs : Dispatch(m, c, max)
    \/ \E t \in Threads : HStore(t)
    \/ \E t \in Threads : HInviteReceived(t)
    \/ \E t \in Threads : HSetWaiting(t)
    \/ \E t \in Threads : HDelete(t)
    \/ \E t \in Threads : HCallback(t)
    \/ \E t \in Threads : WCancel(t, max)
    \/ \E t \in Threads : WDelete(t)
    \/ \E t \in Threads : WCallback(t)

Outbound(max) ==
    \/ \E m \in OutboundMethods, c \in CallIDs, auth \in BOOLEAN :
        StartRequest(m, c, auth, max)
    \/ CtxCancel
    \/ \E f \in Calls : URequestOK(f)
    \/ \E f \in Calls : URequestFail(f)
    \/ \E f \in Calls : USeedLoad(f)
    \/ \E f \in Calls : USeedStore(f)
    \/ \E f \in Calls : USeedCallback(f)
    \/ \E f \in Calls : ELCtxDone(f)
    \/ \E f \in Calls, ev \in ErrorEvents : ELError(f, ev, max)
    \/ \E f \in Calls : ELResponsesClosed(f, max)
    \/ \E f \in Calls, r \in Responses : ELResponse(f, r, max)
    \/ \E f \in Calls : ELSend(f)
    \/ \E f \in Calls : ELAuthorized(f)
    \/ \E f \in Calls : ELAuthFailed(f)
    \/ \E f \in Calls, g \in Calls : ELNestedReturn(f, g)
    \/ \E f \in Calls, r \in Responses : Drain(f, r, max)
    \/ \E f \in Calls, r \in Responses : AckRetransmission(f, r)
    \/ \E f \in Calls, chn \in Channels : WaitRecv(f, chn)
    \/ \E f \in Calls : WaitProvLoad(f)
    \/ \E f \in Calls : WaitProvisional(f)
    \/ \E f \in Calls : WaitEarlyMedia(f)
    \/ \E f \in Calls : WaitErrLoad(f)
    \/ \E f \in Calls : WaitErrDelete(f)
    \/ \E f \in Calls : WaitFailure(f)
    \/ \E f \in Calls : WaitRespLoad(f)
    \/ \E f \in Calls : WaitConfirmed(f)

Next == Inbound(MaxEvents) \/ Outbound(MaxEvents)

NextUAC == Outbound(MaxResp + 1)

\* the user agent: inbound requests and one outgoing request, interleaved
Spec == Init /\ [][Next]_vars

\* the coordinator alone: one outgoing request and no inbound request
SpecUAC == Init /\ [][NextUAC]_vars

\* a step of the goroutines of a call: everything but what the application
\* and the client transaction do
CoordinatorStep ==
    \E f \in Calls :
        \/ URequestOK(f) \/ URequestFail(f)
        \/ USeedLoad(f) \/ USeedStore(f) \/ USeedCallback(f)
        \/ ELCtxDone(f) \/ ELSend(f) \/ ELAuthorized(f) \/ ELAuthFailed(f)
        \/ \E g \in Calls : ELNestedReturn(f, g)
        \/ \E chn \in Channels : WaitRecv(f, chn)
        \/ WaitProvLoad(f) \/ WaitProvisional(f) \/ WaitEarlyMedia(f)
        \/ WaitErrLoad(f) \/ WaitErrDelete(f) \/ WaitFailure(f)
        \/ WaitRespLoad(f) \/ WaitConfirmed(f)

\* the coordinator alone, its goroutines scheduled whenever they can run
SpecUACFair == SpecUAC /\ WF_vars(CoordinatorStep)

\* SendRegister and the coordinator it calls; its context is never cancelled
\* and a REGISTER has no session
NextReg ==
    \/ SendRegister
    \/ RBuildFail
    \/ \E c \in CallIDs, auth \in BOOLEAN : RBuildOK(c, auth)
    \/ RHandleRegisterState
    \/ \E f \in Calls : URequestOK(f)
    \/ \E f \in Calls : URequestFail(f)
    \/ \E f \in Calls, ev \in ErrorEvents : ELError(f, ev, MaxResp + 1)
    \/ \E f \in Calls : ELResponsesClosed(f, MaxResp + 1)
    \/ \E f \in Calls, r \in Responses : ELResponse(f, r, MaxResp + 1)
    \/ \E f \in Calls : ELSend(f)
    \/ \E f \in Calls : ELAuthorized(f)
    \/ \E f \in Calls : ELAuthFailed(f)
    \/ \E f \in Calls, g \in Calls : ELNestedReturn(f, g)
    \/ \E f \in Calls, chn \in Channels : WaitRecv(f, chn)
    \/ \E f \in Calls : WaitProvLoad(f)
    \/ \E f \in Calls : WaitErrLoad(f)
    \/ \E f \in Calls : WaitRespLoad(f)

\* the registrar client
SpecReg == Init /\ [][NextReg]_vars

\* ---------------------------------------------------------------- properties
\* the sessions created so far
Sessions == 1..Len(sessions)

\* the callbacks InviteStateHandler received for session is, in order
Log(is) == sessions[is].cb

\* the entries the store holds for a Call-ID
Entries(callID) == {p \in iss : p[1] = callID}

\* C1: once InviteStateHandler has been invoked for a session with
\* Terminated, Canceled or Failure, no later invocation for that session
\* carries a different state.
C1_TerminalAbsorbing ==
    \A is \in Sessions : \A i, j \in 1..Len(Log(is)) :
        (i < j /\ Log(is)[i].st \in Terminal) => Log(is)[j].st = Log(is)[i].st

\* C2: at every instant the store holds at most one session per Call-ID,
\* however handleInvite and RequestWithContext interleave.
C2_OneSessionPerCallID ==
    \A c \in CallIDs : Cardinality(Entries(c)) <= 1

\* C2's case: handleInvite and RequestWithContext both found no session for
\* the same Call-ID and both stored the session they created
C2_Witness ==
    \E t \in Threads, f \in Calls :
        /\ thr[t].m = "INVITE" /\ thr[t].new
        /\ calls[f].pc = "seed_cb"
        /\ thr[t].c = calls[f].c
        /\ thr[t].v # calls[f].v
        /\ sessions[thr[t].v].state \notin Terminal
        /\ Cardinality(Entries(thr[t].c)) = 1

\* the responses among the events a client transaction delivered
RespIdx(fr) == {i \in 1..Len(fr.delivered) : fr.delivered[i].ev = "resp"}

\* the 2xx responses the client transaction of a call delivered, the
\* retransmissions included
Count2xx(fr) ==
    Cardinality({i \in RespIdx(fr) : fr.delivered[i].code >= 200
                                     /\ fr.delivered[i].code < 300})
    + fr.retrans

\* C3: for an INVITE whose client transaction delivers a 2xx the stack sees
\* one AckInviteRequest for the first 2xx and one for each retransmission,
\* and one RememberInviteRequest; no ACK for a request that is no INVITE or
\* for a response that is no 2xx.
C3_AckPer2xx ==
    \A f \in Calls :
        IF calls[f].m = "INVITE"
        THEN /\ calls[f].acks = Count2xx(calls[f])
             /\ calls[f].rem = (IF Count2xx(calls[f]) > 0 THEN 1 ELSE 0)
        ELSE calls[f].acks = 0 /\ calls[f].rem = 0

\* the last response the event loop of a call had seen when it took the
\* ctx.Done branch was a provisional one
ProvisionalBeforeCancel(fr) ==
    /\ fr.ctxAt > 0
    /\ fr.delivered[fr.ctxAt].ev = "resp"
    /\ fr.delivered[fr.ctxAt].code < 200

Retries(f) == {g \in Calls : calls[g].parent = f}

\* the calls of SipStack.Request made so far
Submitted == {f \in Calls : calls[f].pc # "request"}

\* C5: a request with an authorizer that gets 401/407, the authorizer
\* succeeding, is submitted to the stack exactly twice; a second 401/407 is
\* not retried and reaches the caller as a RequestError with that code.
C5_OneRetry ==
    \A f \in Calls :
        (calls[f].parent = 0 /\ Retries(f) # {}) =>
            /\ calls[f].auth /\ IsChallenge(calls[f].last)
            /\ Cardinality(Retries(f)) = 1
            /\ \A g \in Retries(f) :
                /\ Retries(g) = {}
                /\ calls[g].el # "authz"
                /\ (calls[f].pc = "ret" /\ IsChallenge(calls[g].last)) =>
                     CallerResult(calls[f], TRUE) = NewRequestError(calls[g].last.code)
            /\ calls[f].pc = "ret" => Cardinality(Submitted) = 2

\* C5's case: both transactions ended in a challenge and the caller has
\* its result
C5_Witness ==
    \E f \in Calls : \E g \in Retries(f) :
        /\ IsChallenge(calls[f].last) /\ IsChallenge(calls[g].last)
        /\ calls[f].pc = "ret"

\* the states of a log of callbacks, in order
States(L) == [i \in 1..Len(L) |-> L[i].st]

\* the callbacks among the first n of log L that call f made with state st
Emitted(L, n, f, st) ==
    {i \in 1..n : L[i].by = "uac" /\ L[i].id = f /\ L[i].st = st}

\* the provisional responses the client transaction of a call delivered
ProvIdx(fr) == {i \in RespIdx(fr) : fr.delivered[i].code < 200}

\* C6: for an outgoing INVITE the callbacks come in the order of the
\* transaction's events: when a call's Confirmed is delivered, the
\* Provisional and EarlyMedia callbacks of every provisional response its
\* transaction delivered have been delivered, none follows, and InviteSent
\* came first of all.
C6_CallbackOrder ==
    \A is \in Sessions :
        LET L == Log(is)
        IN /\ L # <<>> => (L[1].st = "InviteSent"
                           /\ \A i \in 2..Len(L) : L[i].st # "InviteSent")
           /\ \A j \in 1..Len(L) :
                (L[j].st = "Confirmed" /\ L[j].by = "uac") =>
                    LET f == L[j].id
                    IN /\ Cardinality(Emitted(L, j, f, "Provisional"))
                            = Cardinality(ProvIdx(calls[f]))
                       /\ Cardinality(Emitted(L, j, f, "EarlyMedia"))
                            = Cardinality({i \in ProvIdx(calls[f]) :
                                              calls[f].delivered[i].body})
                       /\ Emitted(L, Len(L), f, "Provisional")
                            = Emitted(L, j, f, "Provisional")
                       /\ Emitted(L, Len(L), f, "EarlyMedia")
                            = Emitted(L, j, f, "EarlyMedia")

\* C6's case: an INVITE got a provisional response with a body and then
\* its 2xx, and all four callbacks are in
C6_Witness ==
    \E is \in Sessions :
        States(Log(is)) = <<"InviteSent", "Provisional", "EarlyMedia", "Confirmed">>

\* the outgoing INVITE f of the application ran to its end without a retry
\* or a cancellation and its transaction delivered exactly the events evs
Ran(f, evs) ==
    /\ calls[f].parent = 0 /\ calls[f].m = "INVITE"
    /\ calls[f].pc = "ret"
    /\ Retries(f) = {}
    /\ calls[f].ctxAt < 0
    /\ calls[f].delivered = evs

Trying == [ev |-> "resp", code |-> 100, body |-> FALSE]

Ringing == [ev |-> "resp", code |-> 180, body |-> FALSE]

Progress == [ev |-> "resp", code |-> 183, body |-> TRUE]

OK == [ev |-> "resp", code |-> 200, body |-> TRUE]

\* C7: 100 Trying, one 18x and 200 OK on an outgoing INVITE give exactly
\* InviteSent, Provisional, Confirmed when the 18x has no body and exactly
\* InviteSent, Provisional, EarlyMedia, Confirmed when it has one.
C7_HappyPathCallbacks ==
    \A f \in Calls :
        /\ Ran(f, <<Trying, Ringing, OK>>) =>
             States(Log(calls[f].v)) = <<"InviteSent", "Provisional", "Confirmed">>
        /\ Ran(f, <<Trying, Progress, OK>>) =>
             States(Log(calls[f].v))
                = <<"InviteSent", "Provisional", "EarlyMedia", "Confirmed">>

\* C8: an outgoing INVITE that got 180 Ringing and is then cancelled returns
\* RequestTerminated(487), its session's last state and last callback are
\* Canceled, and the session is out of the store.
C8_CancelAfterRinging ==
    \A f \in Calls :
        ( /\ calls[f].parent = 0 /\ calls[f].m = "INVITE"
          /\ calls[f].pc = "ret"
          /\ calls[f].ctxAt = 1
          /\ calls[f].delivered = <<Ringing>> ) =>
            LET is == calls[f].v
            IN /\ CallerResult(calls[f], TRUE) = NewRequestError(487)
               /\ <<calls[f].c, is>> \notin iss
               /\ sessions[is].state = "Canceled"
               /\ Log(is)[Len(Log(is))].st = "Canceled"

\* the callbacks handler goroutine t made for session is, in order
RECURSIVE ByHandler(_, _)
ByHandler(L, t) ==
    IF L = <<>> THEN <<>>
    ELSE IF Head(L).id = t /\ Head(L).by \in InboundMethods
         THEN <<Head(L).st>> \o ByHandler(Tail(L), t)
         ELSE ByHandler(Tail(L), t)

\* C9: handleInvite for a Call-ID without a session creates one and invokes
\* the handler with InviteReceived and then with WaitingForAnswer; every
\* state a session is set to is reported by a handler invocation.
C9_FreshInviteCallbacks ==
    /\ \A t \in Threads :
        (thr[t].m = "INVITE" /\ thr[t].new /\ thr[t].pc = "done") =>
            ByHandler(Log(thr[t].v), t) = <<"InviteReceived", "WaitingForAnswer">>
    /\ \A is \in Sessions :
        sessions[is].state # "Null" =>
            \E i \in 1..Len(Log(is)) : Log(is)[i].st = sessions[is].state

\* C10: handleBye sends exactly one 200 OK, with or without a session; a
\* session it found is deleted from the store, reported Terminated, and is
\* not in the store afterwards.
C10_ByeAnswered ==
    \A t \in Threads :
        thr[t].m = "BYE" =>
            /\ thr[t].resp <= 1
            /\ thr[t].pc = "done" => thr[t].resp = 1
            /\ (thr[t].pc = "done" /\ thr[t].v # 0) =>
                 /\ <<thr[t].c, thr[t].v>> \notin iss
                 /\ ByHandler(Log(thr[t].v), t) = <<"Terminated">>

\* C10's case: a BYE for a stored session has been handled to its end
C10_Witness ==
    \E t \in Threads :
        thr[t].m = "BYE" /\ thr[t].pc = "done" /\ thr[t].v # 0 /\ thr[t].resp = 1

\* the callbacks the Cancels watcher of handler goroutine t made, in order
RECURSIVE ByWatcher(_, _)
ByWatcher(L, t) ==
    IF L = <<>> THEN <<>>
    ELSE IF Head(L).id = t /\ Head(L).by = "watcher"
         THEN <<Head(L).st>> \o ByWatcher(Tail(L), t)
         ELSE ByWatcher(Tail(L), t)

\* C11: a CANCEL for an inbound INVITE whose session is stored, whether
\* handleCancel or the Cancels watcher of the INVITE receives it, is
\* answered with one 200 OK, the session it found is reported Canceled once
\* by the one that received it, and that session is not in the store
\* afterwards.
C11_CancelAnswered ==
    \A t \in Threads :
        /\ thr[t].m = "CANCEL" =>
             /\ thr[t].resp = 1
             /\ (thr[t].pc = "done" /\ thr[t].v # 0) =>
                  /\ <<thr[t].c, thr[t].v>> \notin iss
                  /\ ByHandler(Log(thr[t].v), t) = <<"Canceled">>
        /\ thr[t].wresp <= 1
        /\ thr[t].wpc = "done" =>
             /\ thr[t].wresp = 1
             /\ thr[t].wv # 0 =>
                  /\ <<thr[t].c, thr[t].wv>> \notin iss
                  /\ ByWatcher(Log(thr[t].wv), t) = <<"Canceled">>

\* C11's case: one CANCEL went to handleCancel and one to the watcher of the
\* INVITE, both found the session and both are through
C11_Witness ==
    \E t, u \in Threads :
        /\ thr[t].m = "CANCEL" /\ thr[t].pc = "done" /\ thr[t].v # 0
        /\ thr[u].wpc = "done" /\ thr[u].wv = thr[t].v

\* C12: a call of SendRegister invokes RegisterStateHandler exactly once,
\* whatever its outcome: never twice, once when SendRegister has returned,
\* and no outcome ends the process before the invocation.
C12_RegisterHandlerOnce ==
    /\ reg.n <= 1
    /\ reg.pc = "done" => reg.n = 1
    /\ reg.pc = "request" => ~crashed

\* the last event the client transaction of a call delivered
LastEvent(fr) == fr.delivered[Len(fr.delivered)]

\* the call ended, without cancellation, on a final response of 300 or more
\* that the authorizer does not get
EndedInFailure(fr) ==
    /\ fr.pc = "ret" /\ fr.ctxAt < 0 /\ fr.delivered # <<>>
    /\ LastEvent(fr).ev = "resp" /\ LastEvent(fr).code >= 300
    /\ ~(IsChallenge(LastEvent(fr)) /\ fr.auth)

\* the call ended, without cancellation, on a transaction timeout error
EndedInTimeout(fr) ==
    /\ fr.pc = "ret" /\ fr.ctxAt < 0 /\ fr.delivered # <<>>
    /\ LastEvent(fr).ev = "timeout"

\* the session waitForResponse found for the error is out of the store and
\* was reported Failure once by this call
SessionFailed(f) ==
    (calls[f].m = "INVITE" /\ calls[f].v # 0) =>
        /\ <<calls[f].c, calls[f].v>> \notin iss
        /\ Cardinality(Emitted(Log(calls[f].v), Len(Log(calls[f].v)),
                               f, "Failure")) = 1

\* C13: a transaction that ends with a final response of 300 or more (no
\* authorizer retry) makes the coordinator return RequestError with that
\* code, one that ends with a timeout error RequestError 408; the stored
\* session of an INVITE is then deleted and reported Failure once.
C13_FailureAndTimeout ==
    \A f \in Calls :
        /\ EndedInFailure(calls[f]) =>
             /\ calls[f].ret.k = "reqerr"
             /\ calls[f].ret.code = LastEvent(calls[f]).code
             /\ SessionFailed(f)
        /\ EndedInTimeout(calls[f]) =>
             /\ calls[f].ret.k = "reqerr"
             /\ calls[f].ret.code = 408
             /\ SessionFailed(f)

\* C13's case: an INVITE ended with 486 after a provisional response and
\* its session was reported Failure
C13_Witness ==
    \E f \in Calls :
        /\ EndedInFailure(calls[f])
        /\ calls[f].m = "INVITE" /\ calls[f].v # 0
        /\ LastEvent(calls[f]).code = 486
        /\ Len(calls[f].delivered) > 1
        /\ sessions[calls[f].v].state = "Failure"

\* the transaction of the application's call delivered, as its last event,
\* an error that is no timeout or the close of one of its streams
StreamEnded ==
    /\ calls # <<>>
    /\ calls[1].ctxAt < 0
    /\ calls[1].delivered # <<>>
    /\ LastEvent(calls[1]).ev \in {"other", "errclosed", "respclosed"}

\* the application's call has returned RequestTerminated(487)
Returned487 ==
    /\ calls # <<>>
    /\ calls[1].pc = "ret"
    /\ CallerResult(calls[1], TRUE) = NewRequestError(487)

\* C14: after an error that is no timeout, or the close of the error or the
\* response stream, a call with waitForResult eventually returns
\* RequestTerminated(487) to its caller.
C14_StreamEndReturns == StreamEnded ~> Returned487

\* the authorizer of a call failed: its error is about to be sent, is on
\* errs, or has been received by waitForResponse
AuthFailed(fr) ==
    \/ fr.out.k = "auth"
    \/ \E i \in 1..Len(fr.ch.errs) : fr.ch.errs[i].k = "auth"
    \/ fr.cur.k = "auth"

\* C15: when AuthorizeRequest fails on a 401/407 the coordinator returns the
\* authorizer's error to its caller: the process does not crash, and the
\* request is not submitted a second time.
C15_AuthErrorReturned ==
    \A f \in Calls :
        AuthFailed(calls[f]) =>
            /\ ~crashed
            /\ Retries(f) = {}
            /\ calls[f].pc = "ret" => CallerResult(calls[f], TRUE).k = "auth"

\* this step invokes InviteStateHandler for session is with a terminal state
TerminalCallback(is) ==
    /\ Len(sessions'[is].cb) = Len(sessions[is].cb) + 1
    /\ sessions'[is].cb[Len(sessions'[is].cb)].st \in Terminal

\* C16 as stated: at the moment the handler is invoked for a session with
\* Terminated, Canceled or Failure, the store holds no entry at all for the
\* session's Call-ID.
C16_NoEntryAtTerminalCallback ==
    [][\A is \in Sessions :
         TerminalCallback(is) => Entries(sessions[is].c) = {}]_vars

\* C16, amended: at the moment the handler is invoked for a session with
\* Terminated, Canceled or Failure, that session is not in the store (the
\* store may hold another session created since under the same Call-ID).
C16_SessionRemovedAtTerminalCallback ==
    [][\A is \in Sessions :
         TerminalCallback(is) => <<sessions[is].c, is>> \notin iss]_vars

\* C16's case: a session got a terminal callback from an inbound handler or
\* a watcher, another from the coordinator's error path, neither is stored
C16_Witness ==
    \E is, js \in Sessions :
        /\ Log(is) # <<>> /\ Log(js) # <<>>
        /\ Log(is)[Len(Log(is))].st \in {"Terminated", "Canceled"}
        /\ Log(js)[Len(Log(js))].st = "Failure"
        /\ <<sessions[is].c, is>> \notin iss
        /\ <<sessions[js].c, js>> \notin iss

\* only INVITEs and ACKs have come in, no CANCEL reached a watcher and no
\* request went out: nothing has deleted a session
OnlyInvites ==
    /\ calls = <<>>
    /\ \A t \in Threads :
        thr[t].m \in {"INVITE", "ACK"} /\ thr[t].wpc \in {"none", "wait"}

\* the sessions created so far for a Call-ID
Created(callID) == {is \in Sessions : sessions[is].c = callID}

\* C17: an inbound INVITE whose Call-ID has a session creates none and
\* leaves the stored one in place, reporting ReInviteReceived for it; INVITEs
\* with the same new Call-ID handled concurrently create and store exactly
\* one session between them.
C17_ReInviteKeepsSession ==
    OnlyInvites =>
        /\ \A c \in CallIDs : Cardinality(Created(c)) <= 1
        /\ \A t \in Threads :
            (thr[t].m = "INVITE" /\ thr[t].pc = "done") =>
                /\ <<thr[t].c, thr[t].v>> \in iss
                /\ ~thr[t].new =>
                     ByHandler(Log(thr[t].v), t) = <<"ReInviteReceived">>

\* C18: the previous-responses list of a client transaction, which is
\* attached to the final response or to the error's last response, holds at
\* most one response per status code.
C18_PreviousDeduplicated ==
    \A f \in Calls :
        \A i, j \in 1..Len(calls[f].prev) :
            calls[f].prev[i] = calls[f].prev[j] => i = j

\* the invocations of InviteStateHandler for session is with a terminal state
TerminalCallbacks(is) ==
    {i \in 1..Len(Log(is)) : Log(is)[i].st \in Terminal}

\* C19: for every session InviteStateHandler is invoked with a terminal
\* state at most once in total, however the BYE handler, the CANCEL handler,
\* the Cancels watcher and the coordinator's error path interleave.
C19_TerminalCallbackOnce ==
    \A is \in Sessions : Cardinality(TerminalCallbacks(is)) <= 1

\* the Confirmed callbacks the coordinator made for session is
ConfirmedByCoordinator(is) ==
    {i \in 1..Len(Log(is)) : Log(is)[i].st = "Confirmed" /\ Log(is)[i].by = "uac"}

\* C20: an outgoing INVITE of the application that ends in a 2xx has the
\* handler invoked with Confirmed by the coordinator exactly once, also when
\* the 2xx came through the authorizer's retry.
C20_ConfirmedOnce ==
    \A f \in Calls :
        ( /\ calls[f].parent = 0 /\ calls[f].m = "INVITE"
          /\ calls[f].pc = "ret"
          /\ CallerResult(calls[f], TRUE).k = "resp"
          /\ calls[f].v # 0 ) =>
            Cardinality(ConfirmedByCoordinator(calls[f].v)) = 1

====
